---- MODULE Spec2Model ----
(***************************************************************************)
(* A model of package d2ir (src/d2ir/d2ir.go): the tree of Maps, Fields    *)
(* and Edges that holds the resolved value of D2 keys, with the path       *)
(* resolver (EnsureField), the edge creator (CreateEdge), deletion, deep   *)
(* copy and structural equality.                                           *)
(*                                                                         *)
(* Go pointers are modelled as indices into a heap: heap.F holds the Field *)
(* objects, heap.M the Maps, heap.E the Edges, heap.I the EdgeIDs and      *)
(* heap.C the RefContexts.  An object is never removed from the heap, it   *)
(* only becomes unreachable, as under Go's garbage collector.  A pointer   *)
(* to a Node is a record [k, id]: k names the dynamic type ("F", "M", "E") *)
(* and k = "nil" is the nil pointer.  heap.X is history, not program       *)
(* state: heap.X[e] names the two Fields Edge e was created between.       *)
(***************************************************************************)
EXTENDS Integers, Sequences, FiniteSets, TLC

\* ------------------------------------------------------------------ bounds
\* Field objects ever allocated (the synthetic root Fields included).
MaxFields == 6
\* Edge objects ever allocated.
MaxEdges == 4
\* RefContexts ever allocated (the root Maps' own included).
MaxCtx == 4
\* Calls made on the tree in one run.
MaxCalls == 4

VARIABLES heap, root, copy, last, calls

vars == <<heap, root, copy, last, calls>>

\* ---------------------------------------------------------------- pointers
NilNode == [k |-> "nil", id |-> 0]
FNode(i) == [k |-> "F", id |-> i]
MNode(i) == [k |-> "M", id |-> i]
ENode(i) == [k |-> "E", id |-> i]

\* A result of a resolver call: the heap after it, the Fields it yielded, its error.
Res(hh, fa, err) == [h |-> hh, fa |-> fa, err |-> err]

\* ----------------------------------------------------------------- strings
\* strings.ToLower over the names the model draws its inputs from.
ToLower(s) ==
  CASE s = "Animal" -> "animal"
    [] s = "Animate" -> "animate"
    [] s = "Layers" -> "layers"
    [] s = "Style" -> "style"
    [] s = "Label" -> "label"
    [] s = "Classes" -> "classes"
    [] s = "Steps" -> "steps"
    [] s = "Scenarios" -> "scenarios"
    [] OTHER -> s

\* strings.EqualFold
EqualFold(a, b) == ToLower(a) = ToLower(b)

\* The characters of a name, lower-cased, for pattern matching; a name the
\* table does not list is one opaque character.
Chars(s) ==
  LET l == ToLower(s) IN
  CASE l = "animate" -> <<"a", "n", "i", "m", "a", "t", "e">>
    [] l = "animal" -> <<"a", "n", "i", "m", "a", "l">>
    [] l = "action" -> <<"a", "c", "t", "i", "o", "n">>
    [] l = "an*" -> <<"a", "n", "*">>
    [] l = "a*" -> <<"a", "*">>
    [] l = "*" -> <<"*">>
    [] l = "**" -> <<"*", "*">>
    [] OTHER -> <<l>>

RECURSIVE wildcard(_, _)
wildcard(p, s) ==
  IF p = <<>> THEN s = <<>>
  ELSE IF Head(p) = "*"
       THEN wildcard(Tail(p), s) \/ (s # <<>> /\ wildcard(p, Tail(s)))
       ELSE s # <<>> /\ Head(s) = Head(p) /\ wildcard(Tail(p), Tail(s))

\* matchPattern: a `*` matches any run of characters of one name, letter case
\* ignored.
matchPattern(name, pattern) == wildcard(Chars(pattern), Chars(name))

\* ---------------------------------------------------------------- keywords
BoardKeywords == {"layers", "scenarios", "steps"}
ReservedKeywordHolders == {"style"}
SimpleReservedKeywords == {"label", "shape", "near", "width", "height"}
CompositeReservedKeywords ==
  {"classes", "constraint", "source-arrowhead", "target-arrowhead"}
    \cup ReservedKeywordHolders \cup BoardKeywords
ReservedKeywords == SimpleReservedKeywords \cup CompositeReservedKeywords

\* ------------------------------------------------------------ constructors
NewField(parent, name, refs) ==
  [parent |-> parent, Name |-> name, Primary_ |-> NilNode,
   Composite |-> NilNode, References |-> refs]

NewMap(parent) == [parent |-> parent, Fields |-> <<>>, Edges |-> <<>>]

NewContext(scopeMap, isEdge, src, dst) ==
  [ScopeMap |-> scopeMap, IsEdge |-> isEdge, Src |-> src, Dst |-> dst]

\* v bound to a name in F: Go's `x := v`, the value computed once.
Let(v, F(_)) == F(v)

\* ------------------------------------------------------------- navigation
Parent(hh, n) ==
  CASE n.k = "F" -> hh.F[n.id].parent
    [] n.k = "M" -> hh.M[n.id].parent
    [] n.k = "E" -> hh.E[n.id].parent
    [] OTHER -> NilNode

RECURSIVE ParentMap(_, _)
ParentMap(hh, n) ==
  LET p == Parent(hh, n) IN
  IF p.k = "nil" THEN NilNode
  ELSE IF p.k = "M" THEN p
  ELSE ParentMap(hh, p)

RECURSIVE ParentField(_, _)
ParentField(hh, n) ==
  LET p == Parent(hh, n) IN
  IF p.k = "nil" THEN NilNode
  ELSE IF p.k = "F" THEN p
  ELSE ParentField(hh, p)

RECURSIVE ParentEdge(_, _)
ParentEdge(hh, n) ==
  LET p == Parent(hh, n) IN
  IF p.k = "nil" THEN NilNode
  ELSE IF p.k = "E" THEN p
  ELSE ParentEdge(hh, p)

\* Field.Root
FieldRoot(hh, f) == hh.F[f.id].parent.k = "nil"

\* Field.Map, Edge.Map, Map.Map: the Map of a node, or nil.
MapOf(hh, n) ==
  CASE n.k = "F" -> IF hh.F[n.id].Composite.k = "M" THEN hh.F[n.id].Composite ELSE NilNode
    [] n.k = "E" -> hh.E[n.id].Map_
    [] n.k = "M" -> n
    [] OTHER -> NilNode

BoardKindOfName(name) ==
  CASE name = "layers" -> "layer"
    [] name = "scenarios" -> "scenario"
    [] name = "steps" -> "step"
    [] OTHER -> ""

NodeBoardKind(hh, n) ==
  IF n.k = "F"
  THEN IF hh.F[n.id].parent.k = "nil" THEN "layer"
       ELSE LET f == ParentField(hh, n) IN
            IF f.k = "nil" THEN "" ELSE BoardKindOfName(hh.F[f.id].Name)
  ELSE IF n.k = "M"
  THEN LET f == ParentField(hh, n) IN
       IF FieldRoot(hh, f) THEN "layer"
       ELSE LET f2 == ParentField(hh, f) IN
            IF f2.k = "nil" THEN "" ELSE BoardKindOfName(hh.F[f2.id].Name)
  ELSE ""

RECURSIVE ParentBoard(_, _)
ParentBoard(hh, n) ==
  LET p == Parent(hh, n) IN
  IF p.k = "nil" THEN NilNode
  ELSE IF NodeBoardKind(hh, p) # "" THEN p
  ELSE ParentBoard(hh, p)

\* The position (from 1) of the first board keyword of ida, 0 when it has
\* none (the code counts from 0 and answers -1).
findBoardKeyword(ida) ==
  LET hits == {i \in 1..Len(ida) : ida[i] \in BoardKeywords} IN
  IF hits = {} THEN 0 ELSE CHOOSE i \in hits : \A j \in hits : i <= j

findProhibitedEdgeKeyword(ida) ==
  LET hits == {i \in 1..Len(ida) :
                 ida[i] \in SimpleReservedKeywords \/ ida[i] \in ReservedKeywordHolders} IN
  IF hits = {} THEN 0 ELSE CHOOSE i \in hits : \A j \in hits : i <= j

\* The number of leading "_" of p; 0 when p holds nothing else.
countUnderscores(p) ==
  LET others == {i \in 1..Len(p) : p[i] # "_"} IN
  IF others = {} THEN 0
  ELSE (CHOOSE i \in others : \A j \in others : i <= j) - 1

\* Map.IsContainer
IsContainer(hh, m) ==
  IF m.k = "nil" THEN FALSE
  ELSE \E i \in 1..Len(hh.M[m.id].Fields) :
         hh.F[hh.M[m.id].Fields[i]].Name \notin ReservedKeywords

\* -------------------------------------------------------------- the resolver
\* A KeyPath is a sequence of segments [s, glob]: glob says the segment is
\* an unquoted string with a Pattern.
IDA(kp) == [i \in 1..Len(kp) |-> kp[i].s]
HasGlob(kp) == \E i \in 1..Len(kp) : kp[i].glob
HasDoubleGlob(kp) == \E i \in 1..Len(kp) : kp[i].glob /\ kp[i].s = "**"

\* The loop of ensureField's literal branch: the position in m.Fields of the
\* first Field whose name equals head, 0 when there is none.
FindFieldExact(hh, m, head) ==
  LET fs == hh.M[m].Fields
      hits == {j \in 1..Len(fs) : hh.F[fs[j]].Name = head} IN
  IF hits = {} THEN 0 ELSE CHOOSE j \in hits : \A k \in hits : j <= k

FindField(hh, m, head) ==
  LET fs == hh.M[m].Fields
      hits == {j \in 1..Len(fs) : EqualFold(hh.F[fs[j]].Name, head)} IN
  IF hits = {} THEN 0 ELSE CHOOSE j \in hits : \A k \in hits : j <= k

\* f.Composite = &Map{parent: f} when f.Map() is nil.
Vivify(hh, f) ==
  IF MapOf(hh, FNode(f)).k # "nil" THEN hh
  ELSE [hh EXCEPT !.M = Append(@, NewMap(FNode(f))),
                  !.F[f].Composite = MNode(Len(hh.M) + 1)]

AddReference(hh, f, refctx) ==
  IF refctx = 0 THEN hh ELSE [hh EXCEPT !.F[f].References = Append(@, refctx)]

\* Map.doubleGlob: every Field of m and of the Maps beneath it, each before
\* its descendants.
RECURSIVE doubleGlobFrom(_, _, _)
doubleGlobFrom(hh, m, k) ==
  IF k > Len(hh.M[m].Fields) THEN <<>>
  ELSE LET f == hh.M[m].Fields[k]
           sub == MapOf(hh, FNode(f)) IN
       <<f>> \o (IF sub.k = "nil" THEN <<>> ELSE doubleGlobFrom(hh, sub.id, 1))
             \o doubleGlobFrom(hh, m, k + 1)

doubleGlob(hh, m) == doubleGlobFrom(hh, m, 1)

\* The Fields of m a pattern segment selects: all Fields beneath m for the
\* double glob, else the Fields of m whose name matches, in m's order.
MatchingAll(hh, m, pattern) == hh.M[m].Fields

Matching(hh, m, pattern) ==
  IF pattern = "**" THEN doubleGlob(hh, m)
  ELSE SelectSeq(hh.M[m].Fields, LAMBDA f : matchPattern(hh.F[f].Name, pattern))

\* The error of the keyword checks Map.ensureField makes on a literal
\* segment that names head, "" when they pass.
KeywordErrorNoBoardCheck(hh, m, i, kp, head) ==
  IF head \in ReservedKeywords /\ head \notin CompositeReservedKeywords /\ i < Len(kp)
  THEN "must be the last part of the key"
  ELSE IF head = "_" THEN "parent _ can only be used in the beginning of paths"
  ELSE ""

KeywordError(hh, m, i, kp, head) ==
  IF head \in ReservedKeywords /\ head \notin CompositeReservedKeywords /\ i < Len(kp)
  THEN "must be the last part of the key"
  ELSE IF head = "_" THEN "parent _ can only be used in the beginning of paths"
  ELSE IF head = "classes" /\ NodeBoardKind(hh, MNode(m)) = ""
  THEN "is only allowed at a board root"
  ELSE IF findBoardKeyword(<<head>>) # 0 /\ NodeBoardKind(hh, MNode(m)) = ""
  THEN "is only allowed at a board root"
  ELSE ""

\* The literal branch of Map.ensureField up to the point where it returns or
\* descends: the Field named head is found, and given the reference, or is
\* created when create is set. fs holds that Field, or nothing.
ensureLiteral(hh, m, i, kp, refctx, create, head) ==
  Let(FindField(hh, m, head), LAMBDA j :
  IF j # 0
  THEN Let(AddReference(hh, hh.M[m].Fields[j], refctx), LAMBDA h1 :
         IF i < Len(kp) /\ h1.F[hh.M[m].Fields[j]].Composite.k = "A"
         THEN [h |-> h1, fs |-> <<>>, err |-> "cannot index into array"]
         ELSE [h |-> h1, fs |-> <<hh.M[m].Fields[j]>>, err |-> ""])
  ELSE IF ~create THEN [h |-> hh, fs |-> <<>>, err |-> ""]
  ELSE [h |-> [hh EXCEPT
                 !.F = Append(@, NewField(MNode(m), head,
                                          IF refctx = 0 THEN <<>> ELSE <<refctx>>)),
                 !.M[m].Fields = Append(@, Len(hh.F) + 1)],
        fs |-> <<Len(hh.F) + 1>>, err |-> ""])

\* What segment i of kp selects in Map m.
ensureSegment(hh, m, i, kp, refctx, create) ==
  IF kp[i].glob THEN [h |-> hh, fs |-> Matching(hh, m, kp[i].s), err |-> ""]
  ELSE Let(IF ToLower(kp[i].s) \in ReservedKeywords THEN ToLower(kp[i].s) ELSE kp[i].s,
           LAMBDA head :
    Let(KeywordError(hh, m, i, kp, head), LAMBDA kerr :
      IF kerr # "" THEN [h |-> hh, fs |-> <<>>, err |-> kerr]
      ELSE ensureLiteral(hh, m, i, kp, refctx, create, head)))

RECURSIVE ensureField(_, _, _, _, _, _, _)
RECURSIVE ensureInto(_, _, _, _, _, _, _, _)

\* The descent of Map.ensureField: the rest of the path is resolved inside
\* the Map of each selected Field, made when missing, up to the first error.
ensureInto(hh, fa2, k, i, kp, refctx, create, fa) ==
  IF k > Len(fa2) THEN Res(hh, fa, "")
  ELSE Let(Vivify(hh, fa2[k]), LAMBDA h1 :
       Let(ensureField(h1, MapOf(h1, FNode(fa2[k])).id, i + 1, kp, refctx, create, fa),
           LAMBDA r :
         IF r.err # "" THEN r
         ELSE ensureInto(r.h, fa2, k + 1, i, kp, refctx, create, r.fa)))

\* Map.ensureField: resolve kp from its i-th segment inside Map m.
ensureField(hh, m, i, kp, refctx, create, fa) ==
  Let(ensureSegment(hh, m, i, kp, refctx, create), LAMBDA t :
    IF t.err # "" THEN Res(t.h, fa, t.err)
    ELSE IF i = Len(kp) THEN Res(t.h, fa \o t.fs, "")
    ELSE ensureInto(t.h, t.fs, 1, i, kp, refctx, create, fa))

\* Map.EnsureField: the leading "_" segments climb to the parent Maps.
RECURSIVE EnsureFieldFrom(_, _, _, _, _, _)
EnsureFieldFrom(hh, m, i, kp, refctx, create) ==
  IF kp[i].s = "_"
  THEN LET pm == ParentMap(hh, MNode(m)) IN
       IF pm.k = "nil" THEN Res(hh, <<>>, "invalid underscore: no parent")
       ELSE IF i = Len(kp) THEN Res(hh, <<>>, "field key must contain more than underscores")
       ELSE EnsureFieldFrom(hh, pm.id, i + 1, kp, refctx, create)
  ELSE ensureField(hh, m, i, kp, refctx, create, <<>>)

EnsureField(hh, m, kp, refctx, create) == EnsureFieldFrom(hh, m, 1, kp, refctx, create)

\* ------------------------------------------------------------------ queries
\* Map.getField
RECURSIVE getFieldFrom(_, _, _, _)
getFieldFrom(hh, m, ida, k) ==
  IF Len(ida) = 0 \/ ida[1] = "_" \/ k > Len(hh.M[m].Fields) THEN NilNode
  ELSE LET f == hh.M[m].Fields[k] IN
       IF ~EqualFold(hh.F[f].Name, ida[1]) THEN getFieldFrom(hh, m, ida, k + 1)
       ELSE IF Len(ida) = 1 THEN FNode(f)
       ELSE IF MapOf(hh, FNode(f)).k # "nil"
       THEN getFieldFrom(hh, MapOf(hh, FNode(f)).id, Tail(ida), 1)
       ELSE getFieldFrom(hh, m, ida, k + 1)

getField(hh, m, ida) == getFieldFrom(hh, m, ida, 1)

\* Map.GetField: while ida starts with "_" the loop climbs and never drops
\* the segment, so it ends only by running out of parents.
RECURSIVE GetField(_, _, _)
GetField(hh, m, ida) ==
  IF Len(ida) > 0 /\ ida[1] = "_"
  THEN LET pm == ParentMap(hh, MNode(m)) IN
       IF pm.k = "nil" THEN NilNode ELSE GetField(hh, pm.id, ida)
  ELSE getField(hh, m, ida)

\* ------------------------------------------------------------------ EdgeID
NewEdgeID(src, srcArrow, dst, dstArrow) ==
  [SrcPath |-> src, SrcArrow |-> srcArrow, DstPath |-> dst, DstArrow |-> dstArrow,
   Index |-> <<>>, Glob |-> FALSE]

PathsEqualFold(p, q) ==
  Len(p) = Len(q) /\ \A i \in 1..Len(p) : EqualFold(p[i], q[i])

\* EdgeID.Match; Index is <<>> for a nil *int and <<n>> otherwise.
Match(eid, eid2) ==
  /\ ~(eid.Index # <<>> /\ eid2.Index # <<>> /\ eid.Index[1] # eid2.Index[1])
  /\ eid.SrcArrow = eid2.SrcArrow
  /\ PathsEqualFold(eid.SrcPath, eid2.SrcPath)
  /\ eid.DstArrow = eid2.DstArrow
  /\ PathsEqualFold(eid.DstPath, eid2.DstPath)

Max(a, b) == IF a >= b THEN a ELSE b

\* The underscore loop of EdgeID.resolve, n rounds left.
RECURSIVE resolveUnderscores(_, _, _, _)
resolveUnderscores(hh, eid, m, n) ==
  IF n = 0 THEN [eid |-> eid, m |-> m, common |-> <<>>, err |-> ""]
  ELSE IF Len(eid.SrcPath) = 0 \/ Len(eid.DstPath) = 0
  THEN [eid |-> eid, m |-> m, common |-> <<>>, err |-> "panic: index out of range"]
  ELSE LET mf == hh.F[ParentField(hh, m).id].Name
           src == IF eid.SrcPath[1] = "_" THEN Tail(eid.SrcPath) ELSE <<mf>> \o eid.SrcPath
           dst == IF eid.DstPath[1] = "_" THEN Tail(eid.DstPath) ELSE <<mf>> \o eid.DstPath
           pm == ParentMap(hh, m) IN
       IF pm.k = "nil"
       THEN [eid |-> eid, m |-> NilNode, common |-> <<>>, err |-> "invalid underscore"]
       ELSE resolveUnderscores(hh, [eid EXCEPT !.SrcPath = src, !.DstPath = dst], pm, n - 1)

\* The common-prefix loop of EdgeID.resolve.
RECURSIVE trimCommon(_, _)
trimCommon(eid, common) ==
  IF Len(eid.SrcPath) > 1 /\ Len(eid.DstPath) > 1 /\ EqualFold(eid.SrcPath[1], eid.DstPath[1])
  THEN trimCommon([eid EXCEPT !.SrcPath = Tail(@), !.DstPath = Tail(@)],
                  Append(common, eid.SrcPath[1]))
  ELSE [eid |-> eid, common |-> common]

\* EdgeID.resolve: m is a pointer to a Map.
resolve(hh, eid, m) ==
  Let(resolveUnderscores(hh, eid, m,
        Max(countUnderscores(eid.SrcPath), countUnderscores(eid.DstPath))), LAMBDA u :
    IF u.err # "" THEN u
    ELSE Let(trimCommon(u.eid, <<>>), LAMBDA t :
           [eid |-> t.eid, m |-> u.m, common |-> t.common, err |-> ""]))

\* Map.GetEdges with a nil RefContext.
RECURSIVE GetEdges(_, _, _)
GetEdges(hh, m, eid) ==
  Let(resolve(hh, eid, MNode(m)), LAMBDA r :
    IF r.err # "" THEN <<>>
    ELSE IF Len(r.common) > 0
    THEN Let(GetField(hh, r.m.id, r.common), LAMBDA f :
           IF f.k = "nil" THEN <<>>
           ELSE Let(MapOf(hh, f), LAMBDA fm :
                  IF fm.k # "nil" THEN GetEdges(hh, fm.id, r.eid) ELSE <<>>))
    ELSE SelectSeq(hh.M[r.m.id].Edges, LAMBDA e : Match(hh.I[hh.E[e].ID], r.eid)))

\* RelIDA: the path to Field n relative to Map p.
RECURSIVE RelIDA(_, _, _)
RelIDA(hh, p, n) ==
  IF FieldRoot(hh, n) THEN <<hh.F[n.id].Name>>
  ELSE LET f == ParentField(hh, n) IN
       IF f.k = "nil" \/ FieldRoot(hh, f) \/ f = p \/ hh.F[f.id].Composite = p
       THEN <<hh.F[n.id].Name>>
       ELSE RelIDA(hh, p, f) \o <<hh.F[n.id].Name>>

\* ------------------------------------------------------------ edge creation
\* The result of an edge-creating call: the heap after it, the Edges it
\* appended to its result list, its error, and a record of what it did
\* (pairs[i] tells the Map and the endpoint Fields of ea[i]; stages lists the
\* endpoint lists each Cartesian product ran over).
EdgeRes(hh, ea, pairs, stages, err) ==
  [h |-> hh, ea |-> ea, pairs |-> pairs, stages |-> stages, err |-> err]

NewEdge(parent, id, refctx) ==
  [parent |-> parent, ID |-> id, Primary_ |-> NilNode, Map_ |-> NilNode,
   References |-> <<refctx>>]

\* The three board checks at the head of Map.createEdge2.
BoardErrorNoParentCheck(hh, src, dst) ==
  IF NodeBoardKind(hh, FNode(src)) # "" THEN "cannot create edges between boards"
  ELSE IF NodeBoardKind(hh, FNode(dst)) # "" THEN "cannot create edges between boards"
  ELSE ""

BoardError(hh, src, dst) ==
  IF NodeBoardKind(hh, FNode(src)) # "" THEN "cannot create edges between boards"
  ELSE IF NodeBoardKind(hh, FNode(dst)) # "" THEN "cannot create edges between boards"
  ELSE IF ParentBoard(hh, FNode(src)) # ParentBoard(hh, FNode(dst))
  THEN "cannot create edges between boards"
  ELSE ""

\* The index Map.createEdge2 gives a new Edge: the number of Edges GetEdges
\* finds for its EdgeID with a nil Index.
NextIndex(hh, m, eid) ==
  Len(GetEdges(hh, m, [eid EXCEPT !.Index = <<>>, !.Glob = TRUE]))

\* Map.createEdge2: yields the heap, the new Edge (0 when none) and the error.
createEdge2(hh, m, eid, refctx, src, dst) ==
  Let(BoardError(hh, src, dst), LAMBDA berr :
    IF berr # "" THEN [h |-> hh, e |-> 0, err |-> berr]
    ELSE [h |-> [hh EXCEPT !.I = Append(@, [eid EXCEPT !.Index = <<NextIndex(hh, m, eid)>>,
                                                       !.Glob = FALSE]),
                           !.E = Append(@, NewEdge(MNode(m), Len(hh.I) + 1, refctx)),
                           !.X = Append(@, [src |-> src, dst |-> dst]),
                           !.M[m].Edges = Append(@, Len(hh.E) + 1)],
          e |-> Len(hh.E) + 1, err |-> ""])

\* The pairs Map.createEdge passes over in its Cartesian product.
SelfEdgeSkippedNever(hh, refctx, src, dst) == FALSE

SelfEdgeSkipped(hh, refctx, src, dst) ==
  src = dst /\ (HasGlob(hh.C[refctx].Src) \/ HasGlob(hh.C[refctx].Dst))

DoubleGlobSkippedBoardsOnly(hh, refctx, src, dst) ==
  /\ HasDoubleGlob(hh.C[refctx].Src) \/ HasDoubleGlob(hh.C[refctx].Dst)
  /\ ParentBoard(hh, FNode(src)) # ParentBoard(hh, FNode(dst))

DoubleGlobSkipped(hh, refctx, src, dst) ==
  \/ /\ HasDoubleGlob(hh.C[refctx].Src)
     /\ \/ IsContainer(hh, MapOf(hh, FNode(src)))
        \/ ParentBoard(hh, FNode(src)) # ParentBoard(hh, FNode(dst))
  \/ /\ HasDoubleGlob(hh.C[refctx].Dst)
     /\ \/ IsContainer(hh, MapOf(hh, FNode(dst)))
        \/ ParentBoard(hh, FNode(src)) # ParentBoard(hh, FNode(dst))

\* The record of a pair an Edge was created for: the Map and the two Fields.
PairOf(hh, m, src, dst) ==
  [m |-> m, src |-> src, dst |-> dst]

\* The two nested loops of Map.createEdge from their k-th pass on, the
\* passes counted from 0: pass k pairs source k \div n with destination
\* k % n, n the number of destinations.
RECURSIVE createPairs(_, _, _, _, _, _, _, _)
createPairs(hh, m, eid, refctx, srcFA, dstFA, k, acc) ==
  IF k >= Len(srcFA) * Len(dstFA) THEN EdgeRes(hh, acc.ea, acc.pairs, acc.stages, "")
  ELSE Let(srcFA[(k \div Len(dstFA)) + 1], LAMBDA src :
       Let(dstFA[(k % Len(dstFA)) + 1], LAMBDA dst :
       Let(IF SelfEdgeSkipped(hh, refctx, src, dst) \/ DoubleGlobSkipped(hh, refctx, src, dst)
           THEN [h |-> hh, e |-> 0, err |-> ""]
           ELSE createEdge2(hh, m,
                            [eid EXCEPT !.SrcPath = RelIDA(hh, MNode(m), FNode(src)),
                                        !.DstPath = RelIDA(hh, MNode(m), FNode(dst))],
                            refctx, src, dst),
           LAMBDA r :
         IF r.err # "" THEN EdgeRes(r.h, acc.ea, acc.pairs, acc.stages, r.err)
         ELSE createPairs(r.h, m, eid, refctx, srcFA, dstFA, k + 1,
                          IF r.e = 0 THEN acc
                          ELSE [acc EXCEPT
                                  !.ea = Append(@, r.e),
                                  !.pairs = Append(@, PairOf(hh, m, src, dst))]))))

\* The loops that give the segments of the common prefix the syntax nodes of
\* the source path: j and lastMatch count from 0 as in the code.
RECURSIVE commonInner(_, _, _, _, _)
commonInner(el, seg, srcPath, j, lastMatch) ==
  IF j >= Len(srcPath) THEN [seg |-> seg, lastMatch |-> lastMatch]
  ELSE IF el = srcPath[j + 1].s
  THEN commonInner(el, srcPath[j + 1], srcPath, j + 1, lastMatch + j + 1)
  ELSE commonInner(el, seg, srcPath, j + 1, lastMatch)

RECURSIVE commonKeyPath(_, _, _, _)
commonKeyPath(common, srcPath, i, lastMatch) ==
  IF i > Len(common) THEN <<>>
  ELSE Let(commonInner(common[i], [s |-> common[i], glob |-> FALSE], srcPath,
                       lastMatch, lastMatch), LAMBDA r :
         <<r.seg>> \o commonKeyPath(common, srcPath, i + 1, r.lastMatch))

RECURSIVE createEdge(_, _, _, _, _)
RECURSIVE createInCommon(_, _, _, _, _, _)

\* The loop of Map.createEdge over the Fields its common prefix resolved to.
createInCommon(hh, fa, k, eid, refctx, acc) ==
  IF k > Len(fa) THEN EdgeRes(hh, acc.ea, acc.pairs, acc.stages, "")
  ELSE IF hh.F[fa[k]].Composite.k = "A"
  THEN EdgeRes(hh, acc.ea, acc.pairs, acc.stages, "cannot index into array")
  ELSE Let(Vivify(hh, fa[k]), LAMBDA h1 :
       Let(createEdge(h1, MapOf(h1, FNode(fa[k])).id, eid, refctx, acc), LAMBDA r :
         IF r.err # "" THEN r
         ELSE createInCommon(r.h, fa, k + 1, eid, refctx,
                             [ea |-> r.ea, pairs |-> r.pairs, stages |-> r.stages])))

\* The keyword checks of Map.createEdge on one endpoint path.
\* The error is reported at the segment of the written path kp at the
\* position found in ida, which panics when kp has no such segment.
EndpointKeywordError(ida, kp) ==
  Let(findProhibitedEdgeKeyword(ida), LAMBDA ij :
    IF ij # 0
    THEN IF ij > Len(kp) THEN "panic: index out of range"
         ELSE "reserved keywords are prohibited in edges"
    ELSE IF findBoardKeyword(ida) = Len(ida)
    THEN IF Len(ida) = 0 \/ Len(ida) > Len(kp) THEN "panic: index out of range"
         ELSE "edge with board keyword alone doesn't make sense"
    ELSE "")

\* The part of Map.createEdge after the keyword checks: both endpoints are
\* resolved from the scope of the statement, then paired.
createEndpoints(hh, m, eid, refctx, acc) ==
  Let(EnsureField(hh, hh.C[refctx].ScopeMap, hh.C[refctx].Src, refctx, TRUE), LAMBDA s :
    IF s.err # "" THEN EdgeRes(s.h, acc.ea, acc.pairs, acc.stages, s.err)
    ELSE Let(EnsureField(s.h, hh.C[refctx].ScopeMap, hh.C[refctx].Dst, refctx, TRUE),
             LAMBDA d :
           IF d.err # "" THEN EdgeRes(d.h, acc.ea, acc.pairs, acc.stages, d.err)
           ELSE createPairs(d.h, m, eid, refctx, s.fa, d.fa, 0,
                            [acc EXCEPT !.stages = Append(@, [m |-> m, srcFA |-> s.fa,
                                                              dstFA |-> d.fa])])))

\* Map.createEdge
createEdge(hh, m, eid0, refctx, acc) ==
  IF ParentEdge(hh, MNode(m)).k # "nil"
  THEN EdgeRes(hh, acc.ea, acc.pairs, acc.stages, "cannot create edge inside edge")
  ELSE Let(resolve(hh, eid0, MNode(m)), LAMBDA rs :
    IF rs.err # "" THEN EdgeRes(hh, acc.ea, acc.pairs, acc.stages, rs.err)
    ELSE IF Len(rs.common) > 0
    THEN Let(EnsureField(hh, rs.m.id, commonKeyPath(rs.common, hh.C[refctx].Src, 1, 0),
                         0, TRUE), LAMBDA r :
           IF r.err # "" THEN EdgeRes(r.h, acc.ea, acc.pairs, acc.stages, r.err)
           ELSE createInCommon(r.h, r.fa, 1, rs.eid, refctx, acc))
    ELSE Let(EndpointKeywordError(rs.eid.SrcPath, hh.C[refctx].Src), LAMBDA serr :
      IF serr # "" THEN EdgeRes(hh, acc.ea, acc.pairs, acc.stages, serr)
      ELSE Let(EndpointKeywordError(rs.eid.DstPath, hh.C[refctx].Dst), LAMBDA derr :
        IF derr # "" THEN EdgeRes(hh, acc.ea, acc.pairs, acc.stages, derr)
        ELSE createEndpoints(hh, rs.m.id, rs.eid, refctx, acc))))

\* Map.CreateEdge
CreateEdge(hh, m, eid, refctx) ==
  createEdge(hh, m, eid, refctx, [ea |-> <<>>, pairs |-> <<>>, stages |-> <<>>])

\* ----------------------------------------------------------------- deletion
RemoveAt(sq, i) == SubSeq(sq, 1, i - 1) \o SubSeq(sq, i + 1, Len(sq))

\* The position in es of the first Edge whose ID matches eid, 0 when none.
FirstMatch(hh, es, eid) ==
  LET hits == {i \in 1..Len(es) : Match(hh.I[hh.E[es[i]].ID], eid)} IN
  IF hits = {} THEN 0 ELSE CHOOSE i \in hits : \A j \in hits : i <= j

\* Map.DeleteEdge: yields the heap and the Edge removed (0 when none).
DeleteEdge(hh, m, eid) ==
  Let(FirstMatch(hh, hh.M[m].Edges, eid), LAMBDA i :
    IF i = 0 THEN [h |-> hh, e |-> 0]
    ELSE [h |-> [hh EXCEPT !.M[m].Edges = RemoveAt(@, i)], e |-> hh.M[m].Edges[i]])

\* The Edge loops of Map.DeleteField.  m.Edges is a slice: arr holds its
\* backing array and n its length.  A range loop reads the length once (ns)
\* and each element when it reaches it (arr[j]); DeleteEdge removes in place,
\* moving the later elements of the backing array down and leaving its last
\* element where it was.
EdgeHasContext(hh, e, ctx) ==
  \E i \in 1..Len(hh.E[e].References) : hh.E[e].References[i] = ctx

DeleteInPlace(hh, arr, n, eid) ==
  Let(FirstMatch(hh, SubSeq(arr, 1, n), eid), LAMBDA i :
    IF i = 0 THEN [arr |-> arr, n |-> n]
    ELSE [arr |-> SubSeq(arr, 1, i - 1) \o SubSeq(arr, i + 1, n) \o SubSeq(arr, n, Len(arr)),
          n |-> n - 1])

RECURSIVE rangeEdges(_, _, _, _, _, _)
rangeEdges(hh, arr, n, ns, j, ctx) ==
  IF j > ns THEN [arr |-> arr, n |-> n]
  ELSE IF EdgeHasContext(hh, arr[j], ctx)
  THEN Let(DeleteInPlace(hh, arr, n, hh.I[hh.E[arr[j]].ID]), LAMBDA d :
         rangeEdges(hh, d.arr, d.n, ns, j + 1, ctx))
  ELSE rangeEdges(hh, arr, n, ns, j + 1, ctx)

RECURSIVE rangeReferences(_, _, _, _, _)
rangeReferences(hh, refs, k, arr, n) ==
  IF k > Len(refs) THEN SubSeq(arr, 1, n)
  ELSE Let(rangeEdges(hh, arr, n, n, 1, refs[k]), LAMBDA r :
         rangeReferences(hh, refs, k + 1, r.arr, r.n))

\* The Edges of m left once the Edges sharing a RefContext with f are deleted.
EdgesAfterFieldDeleted(hh, m, f) ==
  rangeReferences(hh, hh.F[f].References, 1, hh.M[m].Edges, Len(hh.M[m].Edges))

\* The clean-up of an emptied keyword holder after f was removed from its Map.
DeleteEmptyHolder(hh, f) ==
  LET parent == ParentField(hh, FNode(f)) IN
  IF /\ parent.k # "nil"
     /\ hh.F[parent.id].Name \in ReservedKeywordHolders
     /\ Len(hh.M[MapOf(hh, parent).id].Fields) = 0
  THEN LET km == ParentMap(hh, parent).id
           hits == {i \in 1..Len(hh.M[km].Fields) :
                      hh.F[hh.M[km].Fields[i]].Name = hh.F[parent.id].Name} IN
       IF hits = {} THEN hh
       ELSE [hh EXCEPT !.M[km].Fields = RemoveAt(@, CHOOSE i \in hits : \A j \in hits : i <= j)]
  ELSE hh

\* Map.DeleteField: yields the heap and the Field removed (0 when none).
RECURSIVE DeleteFieldFrom(_, _, _, _)
DeleteFieldFrom(hh, m, ida, i) ==
  IF Len(ida) = 0 \/ i > Len(hh.M[m].Fields) THEN [h |-> hh, f |-> 0]
  ELSE LET f == hh.M[m].Fields[i] IN
       IF ~EqualFold(hh.F[f].Name, ida[1]) THEN DeleteFieldFrom(hh, m, ida, i + 1)
       ELSE IF Len(ida) = 1
       THEN [h |-> DeleteEmptyHolder([hh EXCEPT
                                        !.M[m].Edges = EdgesAfterFieldDeleted(hh, m, f),
                                        !.M[m].Fields = RemoveAt(@, i)], f),
             f |-> f]
       ELSE IF MapOf(hh, FNode(f)).k # "nil"
       THEN DeleteFieldFrom(hh, MapOf(hh, FNode(f)).id, Tail(ida), 1)
       ELSE DeleteFieldFrom(hh, m, ida, i + 1)

DeleteField(hh, m, ida) == DeleteFieldFrom(hh, m, ida, 1)

\* --------------------------------------------------------------------- copy
\* Scalar.Copy
ScalarCopy(hh, sc, newParent) ==
  [h |-> [hh EXCEPT !.S = Append(@, [hh.S[sc] EXCEPT !.parent = newParent])],
   id |-> Len(hh.S) + 1]

RECURSIVE MapCopy(_, _, _)
RECURSIVE FieldCopy(_, _, _)
RECURSIVE EdgeCopy(_, _, _)
RECURSIVE copyFields(_, _, _, _)
RECURSIVE copyEdges(_, _, _, _)

\* The copy of the primary Scalar of a new Field or Edge: yields the heap
\* and the pointer to the copy, nil when there is no primary.
PrimaryCopy(hh, primary, newParent) ==
  IF primary.k = "nil" THEN [h |-> hh, p |-> NilNode]
  ELSE Let(ScalarCopy(hh, primary.id, newParent), LAMBDA r :
         [h |-> r.h, p |-> [k |-> "S", id |-> r.id]])

\* Field.Copy: the copy shares its FieldReferences with f.
FieldCopy(hh, f, newParent) ==
  Let(Len(hh.F) + 1, LAMBDA id :
  Let(PrimaryCopy([hh EXCEPT !.F = Append(@, [hh.F[f] EXCEPT !.parent = newParent])],
                  hh.F[f].Primary_, FNode(id)), LAMBDA p :
  Let([p.h EXCEPT !.F[id].Primary_ = p.p], LAMBDA h2 :
    IF hh.F[f].Composite.k # "M" THEN [h |-> h2, id |-> id]
    ELSE Let(MapCopy(h2, hh.F[f].Composite.id, FNode(id)), LAMBDA c :
           [h |-> [c.h EXCEPT !.F[id].Composite = MNode(c.id)], id |-> id]))))

\* Edge.Copy: tmp := *e copies the pointer ID, so the copy shares the EdgeID
\* object (and the EdgeReferences) with e.
EdgeCopy(hh, e, newParent) ==
  Let(Len(hh.E) + 1, LAMBDA id :
  Let(PrimaryCopy([hh EXCEPT !.E = Append(@, [hh.E[e] EXCEPT !.parent = newParent]),
                             !.X = Append(@, hh.X[e])],
                  hh.E[e].Primary_, ENode(id)), LAMBDA p :
  Let([p.h EXCEPT !.E[id].Primary_ = p.p], LAMBDA h2 :
    IF hh.E[e].Map_.k # "M" THEN [h |-> h2, id |-> id]
    ELSE Let(MapCopy(h2, hh.E[e].Map_.id, ENode(id)), LAMBDA c :
           [h |-> [c.h EXCEPT !.E[id].Map_ = MNode(c.id)], id |-> id]))))

copyFields(hh, pfields, k, m) ==
  IF k > Len(pfields) THEN hh
  ELSE Let(FieldCopy(hh, pfields[k], MNode(m)), LAMBDA r :
         copyFields([r.h EXCEPT !.M[m].Fields = Append(@, r.id)], pfields, k + 1, m))

copyEdges(hh, pedges, k, m) ==
  IF k > Len(pedges) THEN hh
  ELSE Let(EdgeCopy(hh, pedges[k], MNode(m)), LAMBDA r :
         copyEdges([r.h EXCEPT !.M[m].Edges = Append(@, r.id)], pedges, k + 1, m))

\* Map.initRoot
initRoot(hh, m) ==
  [hh EXCEPT !.C = Append(@, NewContext(m, FALSE, <<>>, <<>>)),
             !.F = Append(@, NewField(NilNode, "root", <<Len(hh.C) + 1>>)),
             !.M[m].parent = FNode(Len(hh.F) + 1)]

\* Map.Copy: yields the heap and the new Map.
MapCopy(hh, m, newParent) ==
  Let(Len(hh.M) + 1, LAMBDA id :
  Let(copyFields([hh EXCEPT !.M = Append(@, NewMap(newParent))], hh.M[m].Fields, 1, id),
      LAMBDA h2 :
  Let(copyEdges(h2, hh.M[m].Edges, 1, id), LAMBDA h3 :
    [h |-> IF newParent.k = "nil" THEN initRoot(h3, id) ELSE h3, id |-> id])))

\* The re-appending of the detached holders at the end of Map.CopyBase.
Reattach(hh, m, fs) ==
  [hh EXCEPT !.M[m].Fields = @ \o SelectSeq(fs, LAMBDA f : f # 0)]

\* Map.CopyBase (m is not nil): yields the heap and the new Map.
CopyBase(hh, m, newParent) ==
  Let(DeleteField(hh, m, <<"layers">>), LAMBDA layers :
  Let(DeleteField(layers.h, m, <<"scenarios">>), LAMBDA scenarios :
  Let(DeleteField(scenarios.h, m, <<"steps">>), LAMBDA steps :
  Let(MapCopy(steps.h, m, newParent), LAMBDA c :
    [h |-> Reattach(c.h, m, <<layers.f, scenarios.f, steps.f>>), id |-> c.id]))))

\* ----------------------------------------------------------------- equality
\* A comparison yields "true" or "false", or "panic" when it dereferences a
\* nil pointer or asserts the type of a nil interface.
Then(a, b) == IF a # "true" THEN a ELSE b

Bool3(b) == IF b THEN "true" ELSE "false"

\* Scalar.Equal
ScalarEqual(hh, s, s2) ==
  IF s.k = "nil" \/ s2.k = "nil" THEN "panic"
  ELSE LET v == hh.S[s.id].Value
           v2 == hh.S[s2.id].Value IN
       IF v.type = "string" /\ v2.type = "string" THEN Bool3(v.str = v2.str)
       ELSE Bool3(v.type = v2.type /\ v.str = v2.str)

RECURSIVE MapEqual(_, _, _)
RECURSIVE equalFields(_, _, _, _)
RECURSIVE equalEdges(_, _, _, _)

\* Field.Equal
FieldEqual(hh, f, f2) ==
  IF hh.F[f].Name # hh.F[f2].Name THEN "false"
  ELSE Then(ScalarEqual(hh, hh.F[f].Primary_, hh.F[f2].Primary_),
            IF hh.F[f].Composite.k # "M" \/ hh.F[f2].Composite.k # "M" THEN "panic"
            ELSE MapEqual(hh, hh.F[f].Composite, hh.F[f2].Composite))

\* Edge.Equal
EdgeEqual(hh, e, e2) ==
  IF ~Match(hh.I[hh.E[e].ID], hh.I[hh.E[e2].ID]) THEN "false"
  ELSE Then(ScalarEqual(hh, hh.E[e].Primary_, hh.E[e2].Primary_),
            MapEqual(hh, hh.E[e].Map_, hh.E[e2].Map_))

equalFields(hh, fs, fs2, i) ==
  IF i > Len(fs) THEN "true"
  ELSE Then(FieldEqual(hh, fs[i], fs2[i]), equalFields(hh, fs, fs2, i + 1))

equalEdges(hh, es, es2, i) ==
  IF i > Len(es) THEN "true"
  ELSE Then(EdgeEqual(hh, es[i], es2[i]), equalEdges(hh, es, es2, i + 1))

\* Map.Equal: m and m2 are pointers to Maps.
MapEqual(hh, m, m2) ==
  IF m.k = "nil" \/ m2.k = "nil" THEN "panic"
  ELSE IF Len(hh.M[m.id].Fields) # Len(hh.M[m2.id].Fields) THEN "false"
  ELSE IF Len(hh.M[m.id].Edges) # Len(hh.M[m2.id].Edges) THEN "false"
  ELSE Then(equalFields(hh, hh.M[m.id].Fields, hh.M[m2.id].Fields, 1),
            equalEdges(hh, hh.M[m.id].Edges, hh.M[m2.id].Edges, 1))

\* -------------------------------------------------------------- the machine
\* heap: the objects.  root: the Map of the tree under construction.  copy:
\* the Map a Copy of root returned (0 before any).  last: the last call, its
\* arguments and what it returned.  calls: the number of calls made so far.
Range(sq) == {sq[i] : i \in 1..Len(sq)}

RECURSIVE MapsUnder(_, _)
MapsUnder(hh, m) ==
  {m} \cup UNION {MapsUnder(hh, hh.F[f].Composite.id) :
                    f \in {g \in Range(hh.M[m].Fields) : hh.F[g].Composite.k = "M"}}
      \cup UNION {MapsUnder(hh, hh.E[e].Map_.id) :
                    e \in {g \in Range(hh.M[m].Edges) : hh.E[g].Map_.k = "M"}}

\* The Maps a caller can hold: those of the tree and those of its copy.
LiveMaps == MapsUnder(heap, root) \cup (IF copy = 0 THEN {} ELSE MapsUnder(heap, copy))

FieldsUnder(hh, m) == UNION {Range(hh.M[x].Fields) : x \in MapsUnder(hh, m)}
EdgesUnder(hh, m) == UNION {Range(hh.M[x].Edges) : x \in MapsUnder(hh, m)}

L(s) == [s |-> s, glob |-> FALSE]
G(s) == [s |-> s, glob |-> TRUE]

NoCall ==
  [op |-> "", m |-> 0, kp |-> <<>>, dst |-> <<>>, create |-> FALSE, refctx |-> 0,
   fa |-> <<>>, ea |-> <<>>, pairs |-> <<>>, stages |-> <<>>, err |-> "", out |-> 0,
   equal |-> "", repeat |-> "", res |-> <<>>]

InBounds(hh) ==
  Len(hh.F) <= MaxFields /\ Len(hh.E) <= MaxEdges /\ Len(hh.C) <= MaxCtx

Called == calls < MaxCalls /\ calls' = calls + 1

Init ==
  /\ heap = [F |-> <<NewField(NilNode, "root", <<1>>)>>,
             M |-> <<NewMap(FNode(1))>>,
             E |-> <<>>, I |-> <<>>, S |-> <<>>, X |-> <<>>,
             C |-> <<NewContext(1, FALSE, <<>>, <<>>)>>]
  /\ root = 1
  /\ copy = 0
  /\ last = NoCall
  /\ calls = 0

\* Whether a call of EnsureField repeats the call before it: "same" for the
\* same literal path on the same Map with create set, "case" when only the
\* letter case of the path differs, "" otherwise.
Repeats(m, kp, create) ==
  IF /\ last.op = "EnsureField" /\ last.create /\ create /\ last.m = m
     /\ ~HasGlob(kp) /\ ~HasGlob(last.kp)
     /\ PathsEqualFold(IDA(kp), IDA(last.kp))
  THEN IF kp = last.kp THEN "same" ELSE "case"
  ELSE ""

\* m.EnsureField(kp, refctx, create); withRef says refctx is a new RefContext
\* of a key in scope m, and not nil.
DoEnsureField(m, kp, create, withRef) ==
  LET refctx == IF withRef THEN Len(heap.C) + 1 ELSE 0
      h0 == IF withRef THEN [heap EXCEPT !.C = Append(@, NewContext(m, FALSE, kp, <<>>))]
            ELSE heap
  IN calls < MaxCalls /\ \E r \in {EnsureField(h0, m, kp, refctx, create)} :
  /\ InBounds(r.h)
  /\ heap' = r.h
  /\ last' = [NoCall EXCEPT !.op = "EnsureField", !.m = m, !.kp = kp, !.create = create,
                            !.refctx = refctx, !.fa = r.fa, !.err = r.err,
                            !.repeat = Repeats(m, kp, create)]
  /\ Called /\ UNCHANGED <<root, copy>>

\* m.CreateEdge(eid, refctx) for the edge src -> dst written in scope m.
DoCreateEdge(m, src, dst, srcArrow, dstArrow) ==
  LET refctx == Len(heap.C) + 1
      h0 == [heap EXCEPT !.C = Append(@, NewContext(m, TRUE, src, dst))]
  IN calls < MaxCalls /\ \E r \in {CreateEdge(h0, m, NewEdgeID(IDA(src), srcArrow, IDA(dst), dstArrow), refctx)} :
  /\ InBounds(r.h)
  /\ heap' = r.h
  /\ last' = [NoCall EXCEPT !.op = "CreateEdge", !.m = m, !.kp = src, !.dst = dst,
                            !.refctx = refctx, !.ea = r.ea, !.pairs = r.pairs,
                            !.stages = r.stages, !.err = r.err]
  /\ Called /\ UNCHANGED <<root, copy>>

\* m.DeleteField(ida...)
DoDeleteField(m, ida) ==
  calls < MaxCalls /\ \E r \in {DeleteField(heap, m, ida)} :
  /\ heap' = r.h
  /\ last' = [NoCall EXCEPT !.op = "DeleteField", !.m = m, !.kp = ida, !.out = r.f]
  /\ Called /\ UNCHANGED <<root, copy>>

\* m.DeleteEdge(eid) with the EdgeID of the k-th Edge of m.
DoDeleteEdge(m, k) ==
  calls < MaxCalls /\ \E r \in {DeleteEdge(heap, m, heap.I[heap.E[heap.M[m].Edges[k]].ID])} :
  /\ heap' = r.h
  /\ last' = [NoCall EXCEPT !.op = "DeleteEdge", !.m = m, !.out = r.e]
  /\ Called /\ UNCHANGED <<root, copy>>

\* m2 := root.Copy(nil), followed by m2.Equal(root).
DoCopy ==
  calls < MaxCalls /\ \E r \in {MapCopy(heap, root, NilNode)} :
  /\ copy = 0
  /\ InBounds(r.h)
  /\ heap' = r.h
  /\ copy' = r.id
  /\ last' = [NoCall EXCEPT !.op = "Copy", !.m = root, !.out = r.id,
                            !.equal = MapEqual(r.h, MNode(r.id), MNode(root))]
  /\ Called /\ UNCHANGED root

\* m2 := root.CopyBase(nil)
DoCopyBase ==
  calls < MaxCalls /\ \E r \in {CopyBase(heap, root, NilNode)} :
  /\ copy = 0
  /\ InBounds(r.h)
  /\ heap' = r.h
  /\ copy' = r.id
  /\ last' = [NoCall EXCEPT !.op = "CopyBase", !.m = root, !.out = r.id]
  /\ Called /\ UNCHANGED root

\* eid.resolve(m) for the EdgeID of src -> dst; the tree is only read.
DoResolve(m, src, dst) ==
  calls < MaxCalls /\ \E r \in {resolve(heap, NewEdgeID(src, FALSE, dst, TRUE), MNode(m))} :
  /\ last' = [NoCall EXCEPT !.op = "resolve", !.m = m, !.kp = src, !.dst = dst,
                            !.err = r.err, !.res = r]
  /\ Called /\ UNCHANGED <<heap, root, copy>>

\* f.Composite = &Array{parent: f} on a Field f of the tree that has no
\* Composite yet, as the compiler does for a key with an array value.
DoSetArray(f) ==
  /\ calls < MaxCalls
  /\ heap.F[f].Composite.k = "nil"
  /\ heap' = [heap EXCEPT !.F[f].Composite = [k |-> "A", id |-> f]]
  /\ last' = [NoCall EXCEPT !.op = "SetArray", !.out = f]
  /\ Called /\ UNCHANGED <<root, copy>>

\* m.GetField(ida...) for the names of the glob-free path kp; the tree is
\* only read.
DoGetField(m, kp) ==
  calls < MaxCalls /\ \E f \in {GetField(heap, m, IDA(kp))} :
  /\ last' = [NoCall EXCEPT !.op = "GetField", !.m = m, !.kp = kp, !.out = f]
  /\ Called /\ UNCHANGED <<heap, root, copy>>

\* ------------------------------------------------------- the specifications
\* Spec: the path resolver with deletion, CopyBase and simple edges.
FieldPaths ==
  { <<L("animate")>>, <<L("Animate")>>, <<G("an*")>>, <<L("animate"), L("Animal")>>,
    <<L("Layers")>>, <<L("layers"), L("animal")>>, <<L("_"), L("animal")>> }

FieldEdges ==
  { <<<<L("animate")>>, <<L("animal")>>>>, <<<<G("an*")>>, <<L("Animate")>>>> }

DeletePaths == { <<"Animate">>, <<"layers">>, <<"animate", "animal">> }

Next ==
  \/ \E m \in LiveMaps, kp \in FieldPaths, create \in BOOLEAN :
       DoEnsureField(m, kp, create, FALSE)
  \/ \E m \in LiveMaps, e \in FieldEdges : DoCreateEdge(m, e[1], e[2], FALSE, TRUE)
  \/ \E m \in LiveMaps, ida \in DeletePaths : DoDeleteField(m, ida)
  \/ DoCopyBase

Spec == Init /\ [][Next]_vars

\* SpecRepeat: EnsureField calls alone, so that calls repeat one another.
NextRepeat ==
  \E m \in LiveMaps, kp \in FieldPaths, create \in BOOLEAN :
    DoEnsureField(m, kp, create, FALSE)

SpecRepeat == Init /\ [][NextRepeat]_vars

\* SpecNames: the four operations that add, remove or re-append Fields, on
\* names that differ in letter case.
NamePaths ==
  { <<L("animate")>>, <<L("Animate")>>, <<L("animate"), L("Animal")>>, <<L("Layers")>> }

NextNames ==
  \/ \E m \in LiveMaps, kp \in NamePaths : DoEnsureField(m, kp, TRUE, FALSE)
  \/ \E m \in LiveMaps, e \in FieldEdges : DoCreateEdge(m, e[1], e[2], FALSE, TRUE)
  \/ \E m \in LiveMaps, ida \in DeletePaths : DoDeleteField(m, ida)
  \/ DoCopyBase

SpecNames == Init /\ [][NextNames]_vars

\* SpecCreate: edge creation on a tree of Fields, boards included.
EdgeFieldPaths == { <<L("animate")>>, <<L("animal")>> }

EdgeStatements ==
  { <<<<L("animate")>>, <<L("animal")>>>>,
    <<<<L("Animate")>>, <<L("animate")>>>>,
    <<<<G("an*")>>, <<G("an*")>>>>,
    <<<<G("an*"), L("animal")>>, <<L("animate"), L("animate")>>>>,
    <<<<L("layers"), L("animal"), L("animate")>>, <<L("animate")>>>>,
    <<<<L("layers"), L("animal")>>, <<L("layers"), L("Animal")>>>> }

NextCreate ==
  \/ \E m \in LiveMaps, kp \in EdgeFieldPaths : DoEnsureField(m, kp, TRUE, FALSE)
  \/ \E m \in LiveMaps, e \in EdgeStatements : DoCreateEdge(m, e[1], e[2], FALSE, TRUE)

SpecCreate == Init /\ [][NextCreate]_vars

\* SpecCross: literal, glob and layers.* edge statements on every live Map,
\* for the board checks of Map.createEdge2.
CrossStatements ==
  { <<<<L("animate")>>, <<L("animal")>>>>,
    <<<<G("an*")>>, <<G("an*")>>>>,
    <<<<L("layers"), L("animal"), L("animate")>>, <<L("animate")>>>>,
    <<<<L("layers"), L("animal")>>, <<L("layers"), L("Animal")>>>> }

NextCross ==
  \/ \E m \in LiveMaps, kp \in EdgeFieldPaths : DoEnsureField(m, kp, TRUE, FALSE)
  \/ \E m \in LiveMaps, e \in CrossStatements : DoCreateEdge(m, e[1], e[2], FALSE, TRUE)

SpecCross == Init /\ [][NextCross]_vars

\* SpecSelf: statements whose two endpoints resolve to one Field, by name or
\* by glob, on a Map and at a board root.
SelfStatements ==
  { <<<<L("Animate")>>, <<L("animate")>>>>,
    <<<<G("an*")>>, <<G("an*")>>>>,
    <<<<L("layers"), L("animal")>>, <<L("layers"), L("Animal")>>>> }

NextSelf ==
  \/ \E m \in LiveMaps, kp \in EdgeFieldPaths : DoEnsureField(m, kp, TRUE, FALSE)
  \/ \E m \in LiveMaps, e \in SelfStatements : DoCreateEdge(m, e[1], e[2], FALSE, TRUE)

SpecSelf == Init /\ [][NextSelf]_vars

\* SpecDelete: creation and deletion of Edges between literal endpoints.
DeleteStatements ==
  { <<<<L("animate")>>, <<L("animal")>>>>, <<<<L("animal")>>, <<L("Animate")>>>> }

NextDelete ==
  \/ \E m \in LiveMaps, e \in DeleteStatements, srcArrow \in BOOLEAN :
       DoCreateEdge(m, e[1], e[2], srcArrow, TRUE)
  \/ \E m \in LiveMaps : \E k \in 1..Len(heap.M[m].Edges) : DoDeleteEdge(m, k)

SpecDelete == Init /\ [][NextDelete]_vars

\* SpecCopy: Copy and CopyBase of a tree, and calls on the tree and its copy.
CopyFieldPaths == { <<L("animate")>>, <<L("layers")>>, <<L("animate"), L("animal")>> }

CopyStatements == { <<<<L("animate")>>, <<L("animal")>>>> }

CopyDeletePaths == { <<"animate">> }

NextCopy ==
  \/ \E m \in LiveMaps, kp \in CopyFieldPaths, withRef \in BOOLEAN :
       DoEnsureField(m, kp, TRUE, withRef)
  \/ \E m \in LiveMaps, e \in CopyStatements : DoCreateEdge(m, e[1], e[2], FALSE, TRUE)
  \/ \E m \in LiveMaps, ida \in CopyDeletePaths : DoDeleteField(m, ida)
  \/ \E m \in LiveMaps : \E k \in 1..Len(heap.M[m].Edges) : DoDeleteEdge(m, k)
  \/ DoCopy
  \/ DoCopyBase

SpecCopy == Init /\ [][NextCopy]_vars

\* ----------------------------------------------------------------- the claims
Names(hh, fs) == [i \in 1..Len(fs) |-> hh.F[fs[i]].Name]
EdgeIDs(hh, es) == [i \in 1..Len(es) |-> hh.I[hh.E[es[i]].ID]]
AllMaps == 1..Len(heap.M)

\* C1: whatever EnsureField, CreateEdge, DeleteField and CopyBase calls were
\* made, no Map holds two Fields whose names are equal when letter case is
\* ignored.
C1_UniqueFieldNames ==
  \A m \in AllMaps : \A i, j \in 1..Len(heap.M[m].Fields) :
    i < j => ~EqualFold(heap.F[heap.M[m].Fields[i]].Name, heap.F[heap.M[m].Fields[j]].Name)

\* A creating call that spelled an existing Field's name in another letter
\* case and was given that Field.
C1_Witness ==
  /\ last.op = "EnsureField" /\ last.create /\ last.err = ""
  /\ Len(last.fa) = 1 /\ Len(last.kp) = 1
  /\ heap.F[last.fa[1]].Name # last.kp[1].s
  /\ EqualFold(heap.F[last.fa[1]].Name, last.kp[1].s)
  /\ Len(heap.M[last.m].Fields) >= 2

\* C4: a creating EnsureField call on a literal path that repeats the call
\* before it on the same Map, with the same path or one that differs only in
\* letter case, returns the very Fields the first call returned and changes
\* the number of Fields of no Map.
C4_EnsureFieldIdempotent ==
  [][(last'.op = "EnsureField" /\ Repeats(last'.m, last'.kp, last'.create) # "")
       => /\ last'.fa = last.fa
          /\ Len(heap'.M) = Len(heap.M)
          /\ \A m \in AllMaps : Len(heap'.M[m].Fields) = Len(heap.M[m].Fields)]_vars

\* The second of two successful creating calls whose paths differ only in
\* letter case.
C4_Witness ==
  /\ last.op = "EnsureField" /\ last.repeat = "case" /\ last.err = ""
  /\ Len(last.fa) = 1

\* C10: m.CopyBase(p) returns a copy holding the Fields of m that are not
\* named layers, scenarios or steps, in m's order, and m's Edges; after the
\* call m's Fields list holds the same Fields in the same order as before and
\* its Edges list is as before.
IsBoardHolder(hh, f) == ToLower(hh.F[f].Name) \in BoardKeywords

C10_CopyBaseRestores ==
  [][last'.op = "CopyBase"
       => /\ Names(heap', heap'.M[copy'].Fields)
               = Names(heap, SelectSeq(heap.M[root].Fields,
                                       LAMBDA f : ~IsBoardHolder(heap, f)))
          /\ EdgeIDs(heap', heap'.M[copy'].Edges) = EdgeIDs(heap, heap.M[root].Edges)
          /\ heap'.M[root].Fields = heap.M[root].Fields
          /\ heap'.M[root].Edges = heap.M[root].Edges]_vars

\* Two EdgeIDs with the same endpoints and arrows, paths compared without
\* regard to letter case.
SameTuple(a, b) ==
  /\ PathsEqualFold(a.SrcPath, b.SrcPath) /\ a.SrcArrow = b.SrcArrow
  /\ PathsEqualFold(a.DstPath, b.DstPath) /\ a.DstArrow = b.DstArrow

\* C2: whatever CreateEdge and DeleteEdge calls were made, every Edge has a
\* non-negative Index and no two Edges of a Map agree on source path, source
\* arrow, destination path, destination arrow and Index; also after an Edge
\* was deleted and another created between the same endpoints.
C2_UniqueEdgeIDs ==
  \A m \in AllMaps :
    LET ids == EdgeIDs(heap, heap.M[m].Edges) IN
    /\ \A i \in 1..Len(ids) : ids[i].Index # <<>> /\ ids[i].Index[1] >= 0
    /\ \A i, j \in 1..Len(ids) :
         i < j => ~(SameTuple(ids[i], ids[j]) /\ ids[i].Index = ids[j].Index)

\* C3: when Edges were only created, never deleted, the n-th Edge of a Map
\* between given endpoints with given arrows carries the index n-1: the k
\* Edges of one tuple carry 0..k-1 in the order of the Map's Edges list.
C3_DenseIndices ==
  \A m \in AllMaps :
    LET ids == EdgeIDs(heap, heap.M[m].Edges) IN
    \A i \in 1..Len(ids) :
      ids[i].Index = <<Cardinality({j \in 1..(i - 1) : SameTuple(ids[j], ids[i])})>>

\* Fields an Edge may run between: neither a board root, both of one board.
SameBoard(hh, src, dst) ==
  /\ NodeBoardKind(hh, FNode(src)) = ""
  /\ NodeBoardKind(hh, FNode(dst)) = ""
  /\ ParentBoard(hh, FNode(src)) = ParentBoard(hh, FNode(dst))

GlobFreeCall == ~HasGlob(last.kp) /\ ~HasGlob(last.dst)

\* The last call was a glob-free CreateEdge that resolved its endpoints to
\* Fields of different boards, or to a board root.
CrossBoardCall ==
  /\ last.op = "CreateEdge" /\ GlobFreeCall
  /\ \E st \in Range(last.stages) :
       \E src \in Range(st.srcFA), dst \in Range(st.dstFA) : ~SameBoard(heap, src, dst)

\* C5: no Edge of any Map runs between Fields of different boards or has a
\* board root for its source or destination, and a CreateEdge call whose
\* glob-free endpoints resolve to such a pair returns "cannot create edges
\* between boards" and appends no Edge.
C5_NoCrossBoardEdges ==
  /\ [](\A e \in 1..Len(heap.E) : SameBoard(heap, heap.X[e].src, heap.X[e].dst))
  /\ [](CrossBoardCall => last.err = "cannot create edges between boards" /\ last.ea = <<>>)
  /\ [][CrossBoardCall' => /\ Len(heap'.E) = Len(heap.E)
                           /\ \A m \in AllMaps : heap'.M[m].Edges = heap.M[m].Edges]_vars

\* A glob-free call between a Field of the root board and a Field inside a
\* layer was refused.
C5_Witness ==
  /\ CrossBoardCall
  /\ last.err = "cannot create edges between boards"
  /\ \E st \in Range(last.stages) :
       /\ Len(st.srcFA) = 1 /\ Len(st.dstFA) = 1
       /\ NodeBoardKind(heap, FNode(st.srcFA[1])) = ""
       /\ NodeBoardKind(heap, FNode(st.dstFA[1])) = ""
       /\ ParentBoard(heap, FNode(st.srcFA[1])) # ParentBoard(heap, FNode(st.dstFA[1]))

\* The RefContext an Edge was created with.
CreatedWith(e) == heap.C[heap.E[e].References[1]]

NoGlobSelfEdge ==
  \A e \in 1..Len(heap.E) :
    (HasGlob(CreatedWith(e).Src) \/ HasGlob(CreatedWith(e).Dst))
      => heap.X[e].src # heap.X[e].dst

\* The last call was a glob-free CreateEdge that resolved both of its
\* endpoints to the one Field f.
SelfCall(f) ==
  /\ last.op = "CreateEdge" /\ GlobFreeCall
  /\ \E st \in Range(last.stages) : st.srcFA = <<f>> /\ st.dstFA = <<f>>

OneSelfEdge(f) ==
  /\ last.err = "" /\ Len(last.ea) = 1
  /\ last.pairs[1].src = f /\ last.pairs[1].dst = f

AnStarCall ==
  /\ last'.op = "CreateEdge"
  /\ last'.kp = <<G("an*")>> /\ last'.dst = <<G("an*")>>
  /\ Range(Names(heap, heap.M[last'.m].Fields)) = {"animate", "animal"}
  /\ Len(heap.M[last'.m].Fields) = 2
  /\ \A f \in Range(heap.M[last'.m].Fields) : NodeBoardKind(heap, FNode(f)) = ""
  /\ heap.M[last'.m].Edges = <<>>

EdgeOf(src, dst) ==
  [NewEdgeID(<<src>>, FALSE, <<dst>>, TRUE) EXCEPT !.Index = <<0>>, !.Glob = FALSE]

C8_CopyEqualsOriginal == last.op = "Copy" => last.equal = "true"

\* The objects of each kind reachable from Map m.
EdgeIDsUnder(hh, m) == {hh.E[e].ID : e \in EdgesUnder(hh, m)}
ScalarsUnder(hh, m) ==
  {hh.F[f].Primary_.id : f \in {g \in FieldsUnder(hh, m) : hh.F[g].Primary_.k = "S"}}
    \cup {hh.E[e].Primary_.id : e \in {g \in EdgesUnder(hh, m) : hh.E[g].Primary_.k = "S"}}

\* What a caller can observe of the tree under m: its Maps, Fields and Edges
\* and the identities of its Edges.
TreeOf(hh, m) ==
  [maps |-> [x \in MapsUnder(hh, m) |-> hh.M[x]],
   fields |-> [f \in FieldsUnder(hh, m) |-> hh.F[f]],
   edges |-> [e \in EdgesUnder(hh, m) |-> hh.E[e]],
   ids |-> [e \in EdgesUnder(hh, m) |-> hh.I[hh.E[e].ID]]]

NothingShared ==
  /\ MapsUnder(heap, root) \cap MapsUnder(heap, copy) = {}
  /\ FieldsUnder(heap, root) \cap FieldsUnder(heap, copy) = {}
  /\ EdgesUnder(heap, root) \cap EdgesUnder(heap, copy) = {}
  /\ EdgeIDsUnder(heap, root) \cap EdgeIDsUnder(heap, copy) = {}
  /\ ScalarsUnder(heap, root) \cap ScalarsUnder(heap, copy) = {}

ParentsInside ==
  /\ \A f \in FieldsUnder(heap, copy) :
       heap.F[f].parent.k = "M" /\ heap.F[f].parent.id \in MapsUnder(heap, copy)
  /\ \A e \in EdgesUnder(heap, copy) :
       heap.E[e].parent.k = "M" /\ heap.E[e].parent.id \in MapsUnder(heap, copy)
  /\ \A m \in MapsUnder(heap, copy) \ {copy} :
       \/ heap.M[m].parent.k = "F" /\ heap.M[m].parent.id \in FieldsUnder(heap, copy)
       \/ heap.M[m].parent.k = "E" /\ heap.M[m].parent.id \in EdgesUnder(heap, copy)

\* A call on a Map of one tree leaves the other tree as it was.
CopyFrame ==
  (copy # 0 /\ last'.op \in {"EnsureField", "CreateEdge", "DeleteField", "DeleteEdge"})
    => /\ last'.m \in MapsUnder(heap, copy) => TreeOf(heap', root) = TreeOf(heap, root)
       /\ last'.m \in MapsUnder(heap, root) => TreeOf(heap', copy) = TreeOf(heap, copy)

\* C9: after m2 = m.Copy(p) no Field, Edge, EdgeID, Map or Scalar is
\* reachable from both m and m2, every node of m2 has its parent inside m2,
\* and EnsureField, CreateEdge, DeleteField and DeleteEdge calls on one of the
\* two trees leave the other unchanged.
C9_CopyIndependent ==
  /\ [](copy # 0 => NothingShared /\ ParentsInside)
  /\ [][CopyFrame]_vars

\* The Fields, Maps and Edges of the heap, their lists and references
\* included (a RefContext is made by the caller and is not part of the tree).
SameTree == heap'.F = heap.F /\ heap'.M = heap.M /\ heap'.E = heap.E /\ heap'.I = heap.I

\* C11: when a creating EnsureField call or a CreateEdge call returns an
\* error, the tree is as it was before the call: no Field, reference, Map or
\* Edge of the call's earlier work remains.
C11_ErrorLeavesTree ==
  [][((last'.op = "CreateEdge" \/ (last'.op = "EnsureField" /\ last'.create))
        /\ last'.err # "") => SameTree]_vars

\* SpecDouble: edge statements with a double glob, on a tree with nested
\* Fields and a layer.
DoubleFieldPaths ==
  { <<L("task"), L("a")>>, <<L("fast")>>, <<L("task"), L("a"), L("b")>>,
    <<L("layers"), L("fast"), L("a")>> }

DoubleStatements ==
  { <<<<L("task"), G("**")>>, <<L("fast")>>>>,
    <<<<G("**")>>, <<L("fast")>>>>,
    <<<<L("fast")>>, <<G("**")>>>> }

NextDouble ==
  \/ \E m \in LiveMaps, kp \in DoubleFieldPaths : DoEnsureField(m, kp, TRUE, FALSE)
  \/ \E m \in LiveMaps, e \in DoubleStatements : DoCreateEdge(m, e[1], e[2], FALSE, TRUE)

SpecDouble == Init /\ [][NextDouble]_vars

\* The Edges the last call appended ran from leaves of one board wherever
\* the endpoint was written with a double glob.
DoubleGlobLeaves ==
  \A i \in 1..Len(last'.pairs) :
    LET p == last'.pairs[i] IN
    /\ HasDoubleGlob(last'.kp) =>
         ~IsContainer(heap', MapOf(heap', FNode(p.src))) /\ ParentBoard(heap', FNode(p.src)) = ParentBoard(heap', FNode(p.dst))
    /\ HasDoubleGlob(last'.dst) =>
         ~IsContainer(heap', MapOf(heap', FNode(p.dst))) /\ ParentBoard(heap', FNode(p.src)) = ParentBoard(heap', FNode(p.dst))

\* The call `task.** -> fast` on a Map whose Field task holds the one Field a,
\* a leaf, task being no board root.
TaskCall ==
  /\ last'.op = "CreateEdge"
  /\ last'.kp = <<L("task"), G("**")>> /\ last'.dst = <<L("fast")>>
  /\ LET j == FindField(heap, last'.m, "task") IN
     /\ j # 0
     /\ LET task == heap.M[last'.m].Fields[j] IN
        /\ NodeBoardKind(heap, FNode(task)) = ""
        /\ MapOf(heap, FNode(task)).k = "M"
        /\ Names(heap, heap.M[MapOf(heap, FNode(task)).id].Fields) = <<"a">>
        /\ ~IsContainer(heap, MapOf(heap, FNode(heap.M[MapOf(heap, FNode(task)).id].Fields[1])))

ScopePaths ==
  { <<L("animate"), L("animal")>>, <<L("_"), L("animal")>>,
    <<L("_"), L("_"), L("animate")>>, <<L("_")>>, <<L("animate"), L("_")>>,
    <<L("animate"), L("_"), L("animal")>> }

NextScope ==
  \E m \in LiveMaps, kp \in ScopePaths, create \in BOOLEAN :
    DoEnsureField(m, kp, create, FALSE)

SpecScope == Init /\ [][NextScope]_vars

\* The number of leading `_` segments of kp.
LeadingUnderscores(kp) ==
  LET others == {i \in 1..Len(kp) : kp[i].s # "_"} IN
  IF others = {} THEN Len(kp) ELSE (CHOOSE i \in others : \A j \in others : i <= j) - 1

\* The k-th ancestor Map of Map m, 0 when m has fewer than k ancestor Maps.
RECURSIVE Ancestor(_, _, _)
Ancestor(hh, m, k) ==
  IF k = 0 THEN m
  ELSE IF ParentMap(hh, MNode(m)).k = "nil" THEN 0
  ELSE Ancestor(hh, ParentMap(hh, MNode(m)).id, k - 1)

Failed == last'.err # "" /\ last'.fa = <<>>

\* C13: EnsureField on m with k leading `_` segments and a non-empty rest
\* resolves the rest inside the k-th ancestor Map of m; it returns an error
\* and no Fields when m has fewer than k ancestor Maps, when the path holds
\* only `_` segments, or when a `_` follows a segment that is not `_`.
C13_UnderscoreScope ==
  [][last'.op = "EnsureField" =>
       LET kp == last'.kp
           k == LeadingUnderscores(kp)
           rest == SubSeq(kp, k + 1, Len(kp))
           anc == Ancestor(heap, last'.m, k)
       IN IF k = Len(kp) \/ anc = 0 \/ (\E i \in 1..Len(rest) : rest[i].s = "_")
          THEN Failed
          ELSE \E r \in {EnsureField(heap, anc, rest, 0, last'.create)} :
                 last'.fa = r.fa /\ last'.err = r.err /\ heap' = r.h]_vars

\* SpecBoard: board keywords and classes, in every letter case, behind
\* literal and glob prefixes, in paths and in edge endpoints.
BoardPaths ==
  { <<L("Layers"), L("animal")>>, <<L("classes")>>, <<L("animate"), L("Classes")>>,
    <<G("an*"), L("Steps")>>, <<L("layers"), L("animal"), L("Scenarios")>>,
    <<L("layers"), L("steps")>> }

BoardStatements ==
  { <<<<L("animate"), L("layers"), L("animal")>>, <<L("animate"), L("animal")>>>>,
    <<<<L("animate")>>, <<L("animal"), L("Steps"), L("animal")>>>> }

NextBoard ==
  \/ \E m \in LiveMaps, kp \in BoardPaths : DoEnsureField(m, kp, TRUE, FALSE)
  \/ \E m \in LiveMaps, e \in BoardStatements : DoCreateEdge(m, e[1], e[2], FALSE, TRUE)

SpecBoard == Init /\ [][NextBoard]_vars

BoardRootOnly == BoardKeywords \cup {"classes"}

\* A creating, glob-free call whose i-th segment names a board keyword or
\* classes, whose earlier segments resolve, and whose i-th segment lands in
\* a Map that is no board root.
WouldMisplace(i) ==
  /\ last'.op = "EnsureField" /\ last'.create /\ ~HasGlob(last'.kp)
  /\ i \in 1..Len(last'.kp)
  /\ ToLower(last'.kp[i].s) \in BoardRootOnly
  /\ IF i = 1 THEN NodeBoardKind(heap, MNode(last'.m)) = ""
     ELSE \E r \in {EnsureField(heap, last'.m, SubSeq(last'.kp, 1, i - 1), 0, TRUE)} :
            /\ r.err = "" /\ Len(r.fa) = 1
            /\ \E h1 \in {Vivify(r.h, r.fa[1])} :
                 NodeBoardKind(h1, MapOf(h1, FNode(r.fa[1]))) = ""

\* C14: whatever EnsureField and CreateEdge calls were made, every Field
\* named layers, scenarios, steps or classes is owned by a Map that is a
\* board root, and an EnsureField call that would place such a Field in a
\* Map that is no board root returns an error.
C14_BoardKeywordsAtBoardRoots ==
  /\ [](\A f \in 2..Len(heap.F) :
          ToLower(heap.F[f].Name) \in BoardRootOnly
            => NodeBoardKind(heap, heap.F[f].parent) # "")
  /\ [][\A i \in 1..3 : WouldMisplace(i) => last'.err # ""]_vars

\* A call that would have put a keyword Field in a Map that is no board
\* root was refused, in a tree that holds a layer with a keyword Field.
C14_Witness ==
  /\ last.op = "EnsureField" /\ last.create
  /\ last.err = "is only allowed at a board root"
  /\ Len(last.kp) = 2 /\ ToLower(last.kp[2].s) \in BoardRootOnly
  /\ \E f \in 2..Len(heap.F) :
       /\ heap.F[f].Name \in BoardKeywords
       /\ NodeBoardKind(heap, heap.F[f].parent) \in {"layer", "scenario", "step"}
       /\ heap.F[f].parent # MNode(root)

\* SpecPattern: glob segments, alone and before literal segments, with and
\* without create.
PatternPaths ==
  { <<L("animal")>>, <<L("action")>>, <<G("a*")>>, <<G("an*")>>,
    <<G("a*"), L("animate")>>, <<G("*"), G("an*")>> }

NextPattern ==
  \E m \in LiveMaps, kp \in PatternPaths, create \in BOOLEAN :
    DoEnsureField(m, kp, create, FALSE)

SpecPattern == Init /\ [][NextPattern]_vars

FieldListsUnchanged ==
  /\ Len(heap'.F) = Len(heap.F)
  /\ \A m \in AllMaps : heap'.M[m].Fields = heap.M[m].Fields

\* Every Field the call appended carries the name of a literal segment.
NewFieldsAreLiteral ==
  \A f \in (Len(heap.F) + 1)..Len(heap'.F) :
    \E i \in 1..Len(last'.kp) :
      ~last'.kp[i].glob /\ EqualFold(heap'.F[f].Name, last'.kp[i].s)

\* C15: EnsureField appends no Field for a glob segment, and none at all
\* with create=false; the pattern `a*` over the Fields animal and action
\* returns just these two and leaves the count at 2; a pattern that matches
\* no Field gives an empty result and no error.
C15_GlobsNeverCreate ==
  [][last'.op = "EnsureField" =>
       /\ NewFieldsAreLiteral
       /\ (\A i \in 1..Len(last'.kp) : last'.kp[i].glob) => FieldListsUnchanged
       /\ ~last'.create => FieldListsUnchanged
       /\ (last'.kp = <<G("a*")>>
             /\ Names(heap, heap.M[last'.m].Fields) = <<"animal", "action">>)
            => /\ last'.fa = heap.M[last'.m].Fields /\ last'.err = ""
               /\ Len(heap'.M[last'.m].Fields) = 2
       /\ (Len(last'.kp) = 1 /\ last'.kp[1].glob
             /\ \A f \in Range(heap.M[last'.m].Fields) :
                  ~matchPattern(heap.F[f].Name, last'.kp[1].s))
            => last'.fa = <<>> /\ last'.err = ""]_vars

\* `a*` was resolved with create set on a Map holding animal and action and
\* returned the two.
C15_Witness ==
  /\ last.op = "EnsureField" /\ last.create /\ last.kp = <<G("a*")>>
  /\ Names(heap, heap.M[last.m].Fields) = <<"animal", "action">>
  /\ last.fa = heap.M[last.m].Fields

\* SpecResolve: EdgeID.resolve on every Map of a nested tree, for endpoint
\* paths with leading `_` segments and shared first segments.
ResolveFieldPaths == { <<L("animate"), L("animal"), L("action")>> }

ResolvePaths ==
  { <<"animal">>, <<"_", "animal">>, <<"_", "_", "action">>, <<"animate", "animal">>,
    <<"Animate", "action">>, <<"animate", "Animal", "action">>, <<"_">>,
    <<"_", "animate", "animal">> }

NextResolve ==
  \/ \E m \in LiveMaps, kp \in ResolveFieldPaths : DoEnsureField(m, kp, TRUE, FALSE)
  \/ \E m \in LiveMaps, src \in ResolvePaths, dst \in ResolvePaths : DoResolve(m, src, dst)

SpecResolve == Init /\ [][NextResolve]_vars

\* The names of the Fields that own Map m and its ancestors, outermost first.
RECURSIVE PathOfMap(_, _)
PathOfMap(hh, m) ==
  IF ParentMap(hh, MNode(m)).k = "nil" THEN <<>>
  ELSE PathOfMap(hh, ParentMap(hh, MNode(m)).id)
         \o <<hh.F[ParentField(hh, MNode(m)).id].Name>>

LeadingRun(p) ==
  LET others == {i \in 1..Len(p) : p[i] # "_"} IN
  IF others = {} THEN Len(p) ELSE (CHOOSE i \in others : \A j \in others : i <= j) - 1

\* The absolute path that p denotes when read from Map m, each leading `_`
\* one Map up; <<"?">> when m has too few ancestors.
Absolute(hh, m, p) ==
  LET anc == Ancestor(hh, m, LeadingRun(p)) IN
  IF anc = 0 THEN <<"?">>
  ELSE PathOfMap(hh, anc) \o SubSeq(p, LeadingRun(p) + 1, Len(p))

ResolveDenotes(r) ==
  /\ PathsEqualFold(Absolute(heap, r.m.id, r.common \o r.eid.SrcPath),
                    Absolute(heap, last.m, last.kp))
  /\ PathsEqualFold(Absolute(heap, r.m.id, r.common \o r.eid.DstPath),
                    Absolute(heap, last.m, last.dst))

ResolveNoUnderscore(r) ==
  /\ r.eid.SrcPath = <<>> \/ r.eid.SrcPath[1] # "_"
  /\ r.eid.DstPath = <<>> \/ r.eid.DstPath[1] # "_"

ResolveMaximal(r) ==
  \/ Len(r.eid.SrcPath) <= 1 \/ Len(r.eid.DstPath) <= 1
  \/ ~EqualFold(r.eid.SrcPath[1], r.eid.DstPath[1])

\* C16: when eid.resolve(m) succeeds with (eid', m', common), common followed
\* by eid'.SrcPath read from m' denotes the absolute path that SrcPath denotes
\* read from m, a leading `_` meaning one Map up, and likewise for DstPath;
\* neither path of eid' starts with `_`; and the trimming is maximal.
C16_ResolveDenotes ==
  (last.op = "resolve" /\ last.err = "")
    => ResolveDenotes(last.res) /\ ResolveNoUnderscore(last.res) /\ ResolveMaximal(last.res)

\* SpecPrefix: edge statements whose endpoints share a first segment, over a
\* tree in which that segment matches one or two Fields.
PrefixFieldPaths == { <<L("animate"), L("action")>>, <<L("animal"), L("action")>> }

PrefixStatements ==
  { <<<<G("an*"), G("a*")>>, <<G("an*"), G("a*")>>>>,
    <<<<G("an*"), L("action")>>, <<G("an*"), L("animal")>>>>,
    <<<<L("animate"), L("animal")>>, <<L("animate"), L("action")>>>> }

NextPrefix ==
  \/ \E m \in LiveMaps, kp \in PrefixFieldPaths : DoEnsureField(m, kp, TRUE, FALSE)
  \/ \E m \in LiveMaps, e \in PrefixStatements : DoCreateEdge(m, e[1], e[2], FALSE, TRUE)

SpecPrefix == Init /\ [][NextPrefix]_vars

\* The number of segments the two written endpoint paths share.
CommonLen(hh, m, src, dst) ==
  Len(resolve(hh, NewEdgeID(IDA(src), FALSE, IDA(dst), TRUE), MNode(m)).common)

\* The number of Edges the statement src -> dst without its first c segments
\* appends when it is written in Map mm alone.
AloneCount(hh, mm, src, dst, c) ==
  Let([hh EXCEPT !.C = Append(@, NewContext(mm, TRUE, SubSeq(src, c + 1, Len(src)),
                                            SubSeq(dst, c + 1, Len(dst))))], LAMBDA h0 :
    Len(CreateEdge(h0, mm, NewEdgeID(IDA(SubSeq(src, c + 1, Len(src))), FALSE,
                                     IDA(SubSeq(dst, c + 1, Len(dst))), TRUE),
                   Len(h0.C)).ea))

EdgesInto(mm, pairs) == Cardinality({i \in 1..Len(pairs) : pairs[i].m = mm})

\* C17: when the endpoints of a CreateEdge share a prefix, every Edge the
\* call appends to a matched Map M runs between Fields below M, M.GetField
\* of the Edge's SrcPath and DstPath returns those Fields, and M receives as
\* many Edges as the statement without the prefix creates in M alone.
C17_PrefixPerMap ==
  [][(last'.op = "CreateEdge" /\ last'.err = ""
        /\ CommonLen(heap, last'.m, last'.kp, last'.dst) > 0)
     => /\ \A i \in 1..Len(last'.ea) :
             LET p == last'.pairs[i]
                 id == heap'.I[heap'.E[last'.ea[i]].ID] IN
             /\ {p.src, p.dst} \subseteq FieldsUnder(heap', p.m)
             /\ GetField(heap', p.m, id.SrcPath) = FNode(p.src)
             /\ GetField(heap', p.m, id.DstPath) = FNode(p.dst)
        /\ \A j \in 1..Len(last'.stages) :
             last'.stages[j].m <= Len(heap.M)
               => EdgesInto(last'.stages[j].m, last'.pairs)
                    = AloneCount(heap, last'.stages[j].m, last'.kp, last'.dst,
                                 CommonLen(heap, last'.m, last'.kp, last'.dst))]_vars

\* SpecDeleteField: Fields and Edges created with RefContexts, one glob
\* statement creating several Edges, then deletion of Fields.
DeleteFieldPaths == { <<L("style"), L("animal")>> }

DeleteFieldStatements ==
  { <<<<L("animate")>>, <<L("animal")>>>>, <<<<L("action")>>, <<G("an*")>>>> }

DeletedPaths == { <<"action">>, <<"animate">>, <<"style", "animal">> }

NextDeleteField ==
  \/ \E m \in LiveMaps, kp \in DeleteFieldPaths : DoEnsureField(m, kp, TRUE, TRUE)
  \/ \E m \in LiveMaps, e \in DeleteFieldStatements : DoCreateEdge(m, e[1], e[2], FALSE, TRUE)
  \/ \E m \in LiveMaps, ida \in DeletedPaths : DoDeleteField(m, ida)

SpecDeleteField == Init /\ [][NextDeleteField]_vars

\* Edge e has a reference whose Context is that of a reference of Field f.
SharesContext(hh, e, f) ==
  \E k \in 1..Len(hh.F[f].References) : EdgeHasContext(hh, e, hh.F[f].References[k])

\* The Edges of es that share no Context with f, in the order of es.
RECURSIVE EdgesWithout(_, _, _)
EdgesWithout(hh, es, f) ==
  IF es = <<>> THEN <<>>
  ELSE (IF SharesContext(hh, Head(es), f) THEN <<>> ELSE <<Head(es)>>)
         \o EdgesWithout(hh, Tail(es), f)

\* f was the only Field of a reserved-keyword holder.
LastOfHolder(hh, f) ==
  /\ ParentField(hh, FNode(f)).k # "nil"
  /\ hh.F[ParentField(hh, FNode(f)).id].Name \in ReservedKeywordHolders
  /\ hh.M[hh.F[f].parent.id].Fields = <<f>>
  /\ ParentMap(hh, ParentField(hh, FNode(f))).k # "nil"

\* C18: after DeleteField has removed Field f from Map m, the Edges of m are
\* those it had that share no Context with a reference of f, in their
\* original order, and the reserved-keyword holder that f was the last Field
\* of is no longer a Field of its Map.
C18_DeleteFieldCascades ==
  [][(last'.op = "DeleteField" /\ last'.out # 0)
     => /\ heap'.M[heap.F[last'.out].parent.id].Edges
             = EdgesWithout(heap, heap.M[heap.F[last'.out].parent.id].Edges, last'.out)
        /\ LastOfHolder(heap, last'.out)
             => LET holder == ParentField(heap, FNode(last'.out)) IN
                \A k \in 1..Len(heap'.M[ParentMap(heap, holder).id].Fields) :
                  heap'.M[ParentMap(heap, holder).id].Fields[k] # holder.id]_vars

\* SpecArray: paths that end at, or go on after, a Field holding an Array.
ArrayPaths ==
  { <<L("animal")>>, <<L("animate")>>, <<L("animal"), L("action")>>,
    <<G("an*"), L("action")>>, <<G("an*")>>, <<L("animate"), G("a*"), L("action")>> }

NextArray ==
  \/ \E m \in LiveMaps, kp \in ArrayPaths, create \in BOOLEAN :
       DoEnsureField(m, kp, create, FALSE)
  \/ \E f \in FieldsUnder(heap, root) : DoSetArray(f)

SpecArray == Init /\ [][NextArray]_vars

\* The Fields segment i of kp selects in Map m.
SelectedBy(hh, m, kp, i) ==
  IF kp[i].glob THEN Range(Matching(hh, m, kp[i].s))
  ELSE IF FindField(hh, m, kp[i].s) = 0 THEN {}
  ELSE {hh.M[m].Fields[FindField(hh, m, kp[i].s)]}

\* Resolving kp from segment i in Map m comes to a Field whose Composite is
\* an Array with segments of kp still to resolve.
RECURSIVE IndexesArray(_, _, _, _)
IndexesArray(hh, m, kp, i) ==
  /\ i < Len(kp)
  /\ \E f \in SelectedBy(hh, m, kp, i) :
       \/ hh.F[f].Composite.k = "A"
       \/ hh.F[f].Composite.k = "M" /\ IndexesArray(hh, hh.F[f].Composite.id, kp, i + 1)

ArraysKept ==
  \A f \in 1..Len(heap.F) :
    heap.F[f].Composite.k = "A" => heap'.F[f].Composite = heap.F[f].Composite

\* C19: an EnsureField whose path goes on after a segment, a name or a
\* glob, that selects a Field whose Composite is an Array returns "cannot
\* index into array", and every Field that held an Array before an
\* EnsureField holds the same Array after it.
C19_ArraysNotIndexed ==
  [][last'.op = "EnsureField"
     => /\ ArraysKept
        /\ IndexesArray(heap, last'.m, last'.kp, 1)
             => last'.err = "cannot index into array"]_vars

\* SpecGet: look-ups of glob-free paths, some through parent Maps.
GetPaths ==
  { <<L("animate"), L("animal")>>, <<L("animal")>>, <<L("Animate"), L("Animal")>>,
    <<L("_"), L("animal")>>, <<L("_"), L("_"), L("animate")>>, <<L("_")>> }

NextGet ==
  \/ \E m \in LiveMaps, kp \in GetPaths : DoEnsureField(m, kp, TRUE, FALSE)
  \/ \E m \in LiveMaps, kp \in GetPaths : DoGetField(m, kp)

SpecGet == Init /\ [][NextGet]_vars

\* The Field a look-up with EnsureField yields: nil when it yields an error
\* or no Field.
LookedUp(r) == IF r.err # "" \/ r.fa = <<>> THEN NilNode ELSE FNode(r.fa[1])

\* C20: for a glob-free path, leading `_` segments included, GetField
\* returns the Field that EnsureField with create=false and a nil reference
\* context yields, and nil exactly when that EnsureField yields no Field or
\* an error.
C20_GetFieldAgrees ==
  last.op = "GetField"
    => last.out = LookedUp(EnsureField(heap, last.m, last.kp, 0, FALSE))

====
